---- MODULE Spec2Model ----
(***************************************************************************)
(* A model of src/src/core/code_generator.py: RobotCodeGenerator, its      *)
(* three constant tables, _normalize_action, _format_parameter_value and   *)
(* generate_code; of src/src/core/task_planner.py: decompose_task and its  *)
(* retried attempts; of src/src/simulation/robot_actions.py and            *)
(* src/src/simulation/robot_environment.py.  Each object has its own       *)
(* variables, actions and specification (Spec, ConcSpec, PlannerSpec,      *)
(* RobotSpec, EnvSpec); an action of one object leaves the others alone.   *)
(*                                                                         *)
(* Text.  A Python str is a sequence of tokens.  Text that comes from the  *)
(* caller (an action name, a string value) is a sequence of one-character  *)
(* tokens, so that lower(), strip(), sorted() and float() work on it       *)
(* character by character.  Text that comes from a literal of the source   *)
(* (a template fragment, a parameter name, an invocation target) is one    *)
(* token.  Concatenation is \o.                                            *)
(***************************************************************************)
EXTENDS Integers, Sequences, FiniteSets, TLC

\* RobotCodeGenerator: one caller of generate_code / _normalize_action
VARIABLES pc, task_plan, idx, code_lines, result, exc, norm_arg, norm_ret

\* TaskPlanner: one caller of decompose_task
VARIABLES tp_pc, instruction, attempt_number, client_log, attempt_exc, tp_result, tp_exc

\* RobotActions: the gripper flag, the engine's live constraints, the operations
\* performed so far and whether the last one raised
VARIABLES gripper_open, constraints, ops, ra_raised

\* RobotEnvironment: whether it is constructed, its fields, the engine's state
\* (bodies, gui_connection), the gui argument of the constructor, the last call
VARIABLES env_state, env_gui, gui_given, gui_connection, bodies, plane_id, robot_id,
          cameras, objects, env_last

\* several callers of one RobotCodeGenerator: each caller's invocation frame,
\* and the class-level tables
VARIABLES frames, tables

\* one caller of _format_parameter_value: its arguments and what it got
VARIABLES fmt_pc, fmt_name, fmt_value, fmt_ret, fmt_exc

generatorVars == <<pc, task_plan, idx, code_lines, result, exc, norm_arg, norm_ret>>

plannerVars ==
    <<tp_pc, instruction, attempt_number, client_log, attempt_exc, tp_result, tp_exc>>

robotVars == <<gripper_open, constraints, ops, ra_raised>>

envVars ==
    <<env_state, env_gui, gui_given, gui_connection, bodies, plane_id, robot_id,
      cameras, objects, env_last>>

\* the state of the objects other than the code generator, the planner, the
\* robot, the environment
callerVars == <<frames, tables>>

formatVars == <<fmt_pc, fmt_name, fmt_value, fmt_ret, fmt_exc>>

outsideGenerator == <<plannerVars, robotVars, envVars, callerVars, formatVars>>

outsidePlanner == <<generatorVars, robotVars, envVars, callerVars, formatVars>>

outsideRobot == <<generatorVars, plannerVars, envVars, callerVars, formatVars>>

outsideEnv == <<generatorVars, plannerVars, robotVars, callerVars, formatVars>>

outsideCallers == <<generatorVars, plannerVars, robotVars, envVars, formatVars>>

outsideFormat == <<generatorVars, plannerVars, robotVars, envVars, callerVars>>

vars == <<generatorVars, plannerVars, robotVars, envVars, callerVars, formatVars>>

(***************************************************************************)
(* Bounds of the model.                                                    *)
(***************************************************************************)
MaxSteps == 2    \* longest action_sequence submitted
MaxParams == 2   \* most entries in one step's parameters mapping
MaxPad == 1      \* most whitespace characters on each side of an action name
NCallers == 2    \* concurrent callers of the code generator

(***************************************************************************)
(* Characters: str.lower(), str.strip() and the order sorted() uses.       *)
(***************************************************************************)
Lowers == <<"a","b","c","d","e","f","g","h","i","j","k","l","m",
            "n","o","p","q","r","s","t","u","v","w","x","y","z">>

Uppers == <<"A","B","C","D","E","F","G","H","I","J","K","L","M",
            "N","O","P","Q","R","S","T","U","V","W","X","Y","Z">>

DigitChars == <<"0","1","2","3","4","5","6","7","8","9">>

Whitespace == {" ", "\t", "\n"}

\* the characters of the model in code-point order
CodePoints == <<"\t", "\n", " ", "'", ".">> \o DigitChars \o Uppers
                 \o <<"\\", "_">> \o Lowers

Range(s) == {s[i] : i \in 1..Len(s)}

Ord(ch) == CHOOSE i \in 1..Len(CodePoints) : CodePoints[i] = ch

\* LowerChar without the case mapping
LowerCharNoop(ch) == ch

LowerChar(ch) ==
    IF \E i \in 1..26 : Uppers[i] = ch
    THEN Lowers[CHOOSE i \in 1..26 : Uppers[i] = ch]
    ELSE ch

UpperChar(ch) ==
    IF \E i \in 1..26 : Lowers[i] = ch
    THEN Uppers[CHOOSE i \in 1..26 : Lowers[i] = ch]
    ELSE ch

\* str.lower()
Lower(s) == [i \in 1..Len(s) |-> LowerChar(s[i])]

\* str.strip(): drop the whitespace at both ends
Strip(s) ==
    LET keep == {i \in 1..Len(s) : s[i] \notin Whitespace}
    IN  IF keep = {} THEN <<>>
        ELSE LET lo == CHOOSE i \in keep : \A j \in keep : i <= j
                 hi == CHOOSE i \in keep : \A j \in keep : j <= i
             IN  SubSeq(s, lo, hi)

\* a < b in Python's order on str: lexicographic by code point
StrLess(a, b) ==
    \E k \in 1..(Len(b)) :
        /\ \A j \in 1..(k - 1) : j <= Len(a) /\ a[j] = b[j]
        /\ Len(a) >= k - 1
        /\ \/ Len(a) = k - 1
           \/ Ord(a[k]) < Ord(b[k])

RECURSIVE SortedList(_)
\* sorted(set): the elements of a set of str in ascending order
SortedList(S) ==
    IF S = {} THEN <<>>
    ELSE LET m == CHOOSE x \in S : \A y \in S \ {x} : StrLess(x, y)
         IN  <<m>> \o SortedList(S \ {m})

RECURSIVE Join(_, _)
\* sep.join(parts), the parts and the result being token sequences
Join(parts, sep) ==
    IF Len(parts) = 0 THEN <<>>
    ELSE IF Len(parts) = 1 THEN parts[1]
    ELSE parts[1] \o <<sep>> \o Join(Tail(parts), sep)

(***************************************************************************)
(* The action names of the source, character by character.                 *)
(***************************************************************************)
S_move == <<"m","o","v","e">>
S_goto == <<"g","o","t","o">>
S_pickup == <<"p","i","c","k","u","p">>
S_grab == <<"g","r","a","b">>
S_put == <<"p","u","t">>
S_place_on == <<"p","l","a","c","e","_","o","n">>
S_find == <<"f","i","n","d">>
S_locate == <<"l","o","c","a","t","e">>
S_identify == <<"i","d","e","n","t","i","f","y">>
S_check == <<"c","h","e","c","k">>
S_turn == <<"t","u","r","n">>
S_open == <<"o","p","e","n">>
S_close == <<"c","l","o","s","e">>
S_move_to == <<"m","o","v","e","_","t","o">>
S_pick_up == <<"p","i","c","k","_","u","p">>
S_place == <<"p","l","a","c","e">>
S_locate_object == <<"l","o","c","a","t","e","_","o","b","j","e","c","t">>
S_identify_object == <<"i","d","e","n","t","i","f","y","_","o","b","j","e","c","t">>
S_rotate == <<"r","o","t","a","t","e">>
S_open_gripper == <<"o","p","e","n","_","g","r","i","p","p","e","r">>
S_close_gripper == <<"c","l","o","s","e","_","g","r","i","p","p","e","r">>
S_placeon == <<"p","l","a","c","e","o","n">>

(***************************************************************************)
(* The constant tables, as dicts: sequences of <<key, value>> in the       *)
(* order the source writes them.                                           *)
(***************************************************************************)
\* ACTION_ALIASES with 'put' mapped to the alias 'place_on' instead of its target
ACTION_ALIASES_Chained == <<
    <<S_move, S_move_to>>,
    <<S_goto, S_move_to>>,
    <<S_pickup, S_pick_up>>,
    <<S_grab, S_pick_up>>,
    <<S_put, S_place_on>>,
    <<S_place_on, S_place>>,
    <<S_find, S_locate_object>>,
    <<S_locate, S_locate_object>>,
    <<S_identify, S_identify_object>>,
    <<S_check, S_identify_object>>,
    <<S_turn, S_rotate>>,
    <<S_open, S_open_gripper>>,
    <<S_close, S_close_gripper>> >>

ACTION_ALIASES == <<
    <<S_move, S_move_to>>,
    <<S_goto, S_move_to>>,
    <<S_pickup, S_pick_up>>,
    <<S_grab, S_pick_up>>,
    <<S_put, S_place>>,
    <<S_place_on, S_place>>,
    <<S_find, S_locate_object>>,
    <<S_locate, S_locate_object>>,
    <<S_identify, S_identify_object>>,
    <<S_check, S_identify_object>>,
    <<S_turn, S_rotate>>,
    <<S_open, S_open_gripper>>,
    <<S_close, S_close_gripper>> >>

SUPPORTED_ACTIONS == <<
    <<S_move_to, "self.robot.move_to_position">>,
    <<S_pick_up, "self.robot.pick_object">>,
    <<S_place, "self.robot.place_object">>,
    <<S_locate_object, "self.robot.locate_object">>,
    <<S_identify_object, "self.robot.identify_object">>,
    <<S_rotate, "self.robot.rotate">>,
    <<S_open_gripper, "self.robot.open_gripper">>,
    <<S_close_gripper, "self.robot.close_gripper">> >>

\* REQUIRED_PARAMETERS with the entry of 'rotate' left out
REQUIRED_PARAMETERS_NoRotate == <<
    <<S_move_to, <<"position">> >>,
    <<S_pick_up, <<"object">> >>,
    <<S_place, <<"position">> >>,
    <<S_locate_object, <<"object">> >>,
    <<S_identify_object, <<"object">> >>,
    <<S_open_gripper, <<>> >>,
    <<S_close_gripper, <<>> >> >>

REQUIRED_PARAMETERS == <<
    <<S_move_to, <<"position">> >>,
    <<S_pick_up, <<"object">> >>,
    <<S_place, <<"position">> >>,
    <<S_locate_object, <<"object">> >>,
    <<S_identify_object, <<"object">> >>,
    <<S_rotate, <<"angle">> >>,
    <<S_open_gripper, <<>> >>,
    <<S_close_gripper, <<>> >> >>

\* dict.keys(), key in dict, dict[key], dict.get(key, default)
Keys(d) == [i \in 1..Len(d) |-> d[i][1]]

HasKey(d, k) == \E i \in 1..Len(d) : d[i][1] = k

Lookup(d, k) == d[CHOOSE i \in 1..Len(d) : d[i][1] = k][2]

GetOr(d, k, default) == IF HasKey(d, k) THEN Lookup(d, k) ELSE default

(***************************************************************************)
(* _normalize_action                                                       *)
(***************************************************************************)
NormalizeAction(action) ==
    LET a == Strip(Lower(action))
        b == IF a = S_placeon THEN S_place_on ELSE a
    IN  GetOr(ACTION_ALIASES, b, b)

(***************************************************************************)
(* Parameter values.  A value is a Python object of one of five types;     *)
(* t names the type and only the field of that type is used.  A float is   *)
(* n + f/10 (one decimal digit), a list is a list of ints.                 *)
(***************************************************************************)
VInt(n) == [t |-> "int", n |-> n, f |-> 0, s |-> <<>>, l |-> <<>>]

VFloat(n, f) == [t |-> "float", n |-> n, f |-> f, s |-> <<>>, l |-> <<>>]

VStr(s) == [t |-> "str", n |-> 0, f |-> 0, s |-> s, l |-> <<>>]

VList(l) == [t |-> "list", n |-> 0, f |-> 0, s |-> <<>>, l |-> l]

VNone == [t |-> "none", n |-> 0, f |-> 0, s |-> <<>>, l |-> <<>>]

RECURSIVE IntStr(_)
\* str(n) of an int n >= 0
IntStr(n) ==
    IF n < 10 THEN <<DigitChars[n + 1]>>
    ELSE IntStr(n \div 10) \o <<DigitChars[(n % 10) + 1]>>

\* str(x) of the float x = n + f/10
FloatStr(n, f) == IntStr(n) \o <<".", DigitChars[f + 1]>>

\* str(l) of a list of ints
ListStr(l) == <<"[">> \o Join([i \in 1..Len(l) |-> IntStr(l[i])], ", ") \o <<"]">>

ReprChar(ch) ==
    CASE ch = "\t" -> <<"\\", "t">>
      [] ch = "\n" -> <<"\\", "n">>
      [] ch = "\\" -> <<"\\", "\\">>
      [] OTHER -> <<ch>>

RECURSIVE ReprBody(_, _)
ReprBody(s, quote) ==
    IF s = <<>> THEN <<>>
    ELSE (IF Head(s) = quote THEN <<"\\", quote>> ELSE ReprChar(Head(s)))
         \o ReprBody(Tail(s), quote)

\* repr(s) of a str
Repr(s) ==
    LET quote == IF "'" \in Range(s) /\ "\"" \notin Range(s) THEN "\"" ELSE "'"
    IN  <<quote>> \o ReprBody(s, quote) \o <<quote>>

\* str(value)
Str(v) ==
    CASE v.t = "int" -> IntStr(v.n)
      [] v.t = "float" -> FloatStr(v.n, v.f)
      [] v.t = "str" -> v.s
      [] v.t = "list" -> ListStr(v.l)
      [] OTHER -> <<"None">>

IsDigit(ch) == ch \in Range(DigitChars)

DigitVal(ch) == (CHOOSE i \in 1..10 : DigitChars[i] = ch) - 1

RECURSIVE NatOf(_)
NatOf(ds) ==
    IF ds = <<>> THEN 0
    ELSE 10 * NatOf(SubSeq(ds, 1, Len(ds) - 1)) + DigitVal(ds[Len(ds)])

\* The strings float() accepts among the strings of the model: digits, or
\* digits "." digit, with whitespace around them.  (float() accepts further
\* forms - a sign, an exponent, inf, nan - that no value of the model has.)
IsFloatLiteral(s) ==
    LET c == Strip(s)
        dot == {i \in 1..Len(c) : c[i] = "."}
    IN  /\ Len(c) > 0
        /\ \/ \A i \in 1..Len(c) : IsDigit(c[i])
           \/ /\ dot = {Len(c) - 1}
              /\ Len(c) >= 3
              /\ \A i \in (1..Len(c)) \ dot : IsDigit(c[i])

NoExc == [type |-> "none", msg |-> <<>>]

Raise(type, msg) == [type |-> type, msg |-> msg]

Ok(text) == [ok |-> TRUE, text |-> text, exc |-> NoExc]

Fail(e) == [ok |-> FALSE, text |-> <<>>, exc |-> e]

\* float(value): the float as <<n, f>>, or the exception float() raises
ToFloat(v) ==
    CASE v.t = "int" -> [ok |-> TRUE, n |-> v.n, f |-> 0, exc |-> NoExc]
      [] v.t = "float" -> [ok |-> TRUE, n |-> v.n, f |-> v.f, exc |-> NoExc]
      [] v.t = "str" ->
            IF IsFloatLiteral(v.s)
            THEN LET c == Strip(v.s)
                 IN  IF "." \in Range(c)
                     THEN [ok |-> TRUE, n |-> NatOf(SubSeq(c, 1, Len(c) - 2)),
                           f |-> DigitVal(c[Len(c)]), exc |-> NoExc]
                     ELSE [ok |-> TRUE, n |-> NatOf(c), f |-> 0, exc |-> NoExc]
            ELSE [ok |-> FALSE, n |-> 0, f |-> 0,
                  exc |-> Raise("ValueError",
                      <<"could not convert string to float: ">> \o Repr(v.s))]
      [] OTHER -> [ok |-> FALSE, n |-> 0, f |-> 0,
                   exc |-> Raise("TypeError",
                       <<"float() argument must be a string or a real number, not '",
                         IF v.t = "none" THEN "NoneType" ELSE v.t, "'">>)]

(***************************************************************************)
(* _format_parameter_value                                                 *)
(***************************************************************************)
FormatParameterValue(param_name, value) ==
    IF param_name = "position" /\ value.t = "list"
    THEN Ok(ListStr(value.l))
    ELSE IF param_name = "position" /\ value.t = "str"
    THEN Ok(<<"self.robot.get_position('">> \o value.s \o <<"')">>)
    ELSE IF param_name = "object"
    THEN Ok(<<"'">> \o Str(value) \o <<"'">>)
    ELSE IF param_name = "angle"
    THEN LET x == ToFloat(value)
         IN  IF x.ok THEN Ok(FloatStr(x.n, x.f)) ELSE Fail(x.exc)
    ELSE Ok(Str(value))

(***************************************************************************)
(* A step is a dict: has_parameters says whether it has a 'parameters'     *)
(* entry, parameters is that entry, a dict in iteration order.             *)
(***************************************************************************)
Step(action, has_parameters, parameters) ==
    [action |-> action, has_parameters |-> has_parameters, parameters |-> parameters]

\* repr(step) of a step with no 'parameters' entry
StepRepr(step) == <<"{", "'action'", ": ">> \o Repr(step.action) \o <<"}">>

(***************************************************************************)
(* generate_code, piece by piece                                           *)
(***************************************************************************)
HeaderLines == <<
    <<"# Auto-generated Robotic Task Execution Script">>,
    <<"def execute_robot_task():">>,
    <<"    try:">> >>

\* TrailerLines without the re-raise
TrailerLinesNoRaise == <<
    <<"    except Exception as e:">>,
    <<"        logging.error(f'Task execution failed: {e}')">> >>

TrailerLines == <<
    <<"    except Exception as e:">>,
    <<"        logging.error(f'Task execution failed: {e}')">>,
    <<"        raise">> >>

\* LacksParameters as "not step.get('parameters')": an empty dict counts as none
LacksParametersOrEmpty(step) == ~step.has_parameters \/ step.parameters = <<>>

\* LacksParameters looked at only once the action is known to be supported
LacksParametersAfterSupport(step) ==
    ~step.has_parameters /\ HasKey(SUPPORTED_ACTIONS, NormalizeAction(step.action))

\* 'parameters' not in step
LacksParameters(step) == ~step.has_parameters

MissingFieldError(step) ==
    Raise("KeyError",
          <<"Missing '", "parameters", "' field in action step: ">> \o StepRepr(step))

\* action in self.SUPPORTED_ACTIONS
Supported(action) == HasKey(SUPPORTED_ACTIONS, action)

\* SupportedNames without the alias keys
SupportedNamesNoAliases == SortedList(Range(Keys(SUPPORTED_ACTIONS)))

\* sorted(set(list(SUPPORTED_ACTIONS.keys()) + list(ACTION_ALIASES.keys())))
SupportedNames ==
    SortedList(Range(Keys(SUPPORTED_ACTIONS) \o Keys(ACTION_ALIASES)))

UnsupportedActionError(step) ==
    Raise("ValueError",
          <<"Unsupported action: ">> \o step.action
          \o <<". ", "Supported actions are: ">> \o Join(SupportedNames, ", "))

\* MissingParams with the test inverted: the required names that are present
MissingParamsInverted(action, params) ==
    SelectSeq(Lookup(REQUIRED_PARAMETERS, action), LAMBDA p : HasKey(params, p))

\* [p for p in required_params if p not in params]
MissingParams(action, params) ==
    SelectSeq(Lookup(REQUIRED_PARAMETERS, action), LAMBDA p : ~HasKey(params, p))

MissingParametersError(action, missing_params) ==
    Raise("ValueError",
          <<"Missing required parameters for action '">> \o action \o <<"': ">>
          \o Join([i \in 1..Len(missing_params) |-> <<missing_params[i]>>], ", "))

\* the formatting result of every entry of params, in iteration order
Formatted(params) ==
    [i \in 1..Len(params) |-> FormatParameterValue(params[i][1], params[i][2])]

\* the entries whose formatting raises
FormatFailures(params) == {i \in 1..Len(params) : ~Formatted(params)[i].ok}

\* the exception of the first entry whose formatting raises
FormatError(params) ==
    LET bad == FormatFailures(params)
    IN  Formatted(params)[CHOOSE i \in bad : \A j \in bad : i <= j].exc

\* param_strings built from the entries in reverse order
ParamStringsReversed(params) ==
    [i \in 1..Len(params) |->
        <<params[Len(params) + 1 - i][1], "=">>
        \o FormatParameterValue(params[Len(params) + 1 - i][1],
                                params[Len(params) + 1 - i][2]).text]

\* param_strings: one "name=value" per entry of params
ParamStrings(params) ==
    [i \in 1..Len(params) |-> <<params[i][1], "=">> \o Formatted(params)[i].text]

\* f"        {self.SUPPORTED_ACTIONS[action]}({', '.join(param_strings)})"
InvocationLine(action, params) ==
    <<"        ", Lookup(SUPPORTED_ACTIONS, action), "(">>
    \o Join(ParamStrings(params), ", ") \o <<")">>

\* "\n".join(code_lines)
Script(lines) == Join(lines, "\n")

(***************************************************************************)
(* The inputs the callers submit.                                          *)
(***************************************************************************)
S_fly == <<"f","l","y">>
S_shelf == <<"s","h","e","l","f">>
S_cube == <<"c","u","b","e">>
S_abc == <<"a","b","c">>
S_45_5 == <<"4","5",".","5">>
S_PlaceOn == <<"P","l","a","c","e","O","n">>
S_MOVE_TO_padded == <<" ","M","O","V","E","_","T","O"," ">>

ParamItems == {
    <<"position", VList(<<0, 0, 1>>)>>,
    <<"position", VStr(S_shelf)>>,
    <<"object", VStr(S_cube)>>,
    <<"angle", VInt(90)>>,
    <<"angle", VFloat(90, 5)>>,
    <<"angle", VStr(S_45_5)>>,
    <<"angle", VStr(S_abc)>> }

\* every dict of at most MaxParams entries, in every iteration order
ParamMaps ==
    UNION {{m \in [1..n -> ParamItems] :
               \A i, j \in 1..n : i # j => m[i][1] # m[j][1]} : n \in 0..MaxParams}

StepActions ==
    Range(Keys(SUPPORTED_ACTIONS)) \cup {S_goto, S_PlaceOn, S_MOVE_TO_padded, S_fly}

Steps ==
    {Step(a, TRUE, m) : a \in StepActions, m \in ParamMaps}
    \cup {Step(a, FALSE, <<>>) : a \in StepActions}

\* the steps of the plans that have more than one step
SeqSteps ==
    {s \in Steps :
        /\ s.action \in {S_goto, S_rotate, S_open_gripper, S_fly}
        /\ s.parameters \in {<<>>, << <<"position", VList(<<0, 0, 1>>)>> >>,
                             << <<"angle", VInt(90)>> >>,
                             << <<"angle", VStr(S_abc)>> >>}}

Plans ==
    {<<>>} \cup {<<s>> : s \in Steps}
    \cup UNION {[1..n -> SeqSteps] : n \in 2..MaxSteps}

Plan(action_sequence) ==
    [objective |-> "x", action_sequence |-> action_sequence]

RECURSIVE Casings(_)
\* s in every letter casing
Casings(s) ==
    IF s = <<>> THEN {<<>>}
    ELSE {<<c>> \o r : c \in {Head(s), UpperChar(Head(s))}, r \in Casings(Tail(s))}

RECURSIVE Pads(_)
\* the strings of at most n blanks and tabs
Pads(n) ==
    IF n = 0 THEN {<<>>}
    ELSE Pads(n - 1) \cup {<<c>> \o r : c \in {" ", "\t"}, r \in {q \in Pads(n - 1) : Len(q) = n - 1}}

\* the strings _normalize_action is called on: the alias keys and 'placeon'
\* in every casing, the canonical names and an unknown name in lower, upper
\* and capitalised form, each with whitespace around it
NormWords ==
    UNION {Casings(k) : k \in Range(Keys(ACTION_ALIASES)) \cup {S_placeon}}
    \cup UNION {{k, [i \in 1..Len(k) |-> UpperChar(k[i])],
                 <<UpperChar(k[1])>> \o Tail(k)} :
                   k \in Range(Keys(SUPPORTED_ACTIONS)) \cup {S_fly}}

NormInputs == {l \o w \o r : l \in Pads(MaxPad), w \in NormWords, r \in Pads(MaxPad)}

(***************************************************************************)
(* The state machine.  pc is where the one caller is: "idle" (no call in   *)
(* progress), "loop" (inside the for loop of generate_code, idx steps      *)
(* done), "returned" / "raised" (generate_code ended), "normalized"        *)
(* (_normalize_action returned).                                           *)
(***************************************************************************)
GeneratorInit ==
    /\ pc = "idle"
    /\ task_plan = Plan(<<>>)
    /\ idx = 0
    /\ code_lines = <<>>
    /\ result = <<>>
    /\ exc = NoExc
    /\ norm_arg = <<>>
    /\ norm_ret = <<>>

\* TaskPlanner(): no call of decompose_task in progress
PlannerInit ==
    /\ tp_pc = "idle"
    /\ instruction = <<>>
    /\ attempt_number = 0
    /\ client_log = <<>>
    /\ attempt_exc = NoExc
    /\ tp_result = [kind |-> "none", members |-> {}]
    /\ tp_exc = NoExc

\* RobotActions(robot_id): lines 7-10
RobotInit ==
    /\ gripper_open = TRUE
    /\ constraints = 0
    /\ ops = <<>>
    /\ ra_raised = FALSE

\* no RobotEnvironment has been constructed
EnvInit ==
    /\ env_state = "none"
    /\ env_gui = FALSE
    /\ gui_given = FALSE
    /\ gui_connection = FALSE
    /\ bodies = 0
    /\ plane_id = <<>>
    /\ robot_id = <<>>
    /\ cameras = <<>>
    /\ objects = <<>>
    /\ env_last = [op |-> "", name |-> "", exc |-> NoExc, cameras_before |-> <<>>]

\* no caller is inside a call
CallersInit ==
    /\ frames = [c \in 1..NCallers |->
                    [pc |-> "idle", submitted |-> Plan(<<>>), task_plan |-> Plan(<<>>),
                     idx |-> 0, code_lines |-> <<>>, result |-> <<>>, exc |-> NoExc,
                     norm_arg |-> <<>>, norm_ret |-> <<>>]]
    /\ tables = <<ACTION_ALIASES, SUPPORTED_ACTIONS, REQUIRED_PARAMETERS>>

\* no call of _format_parameter_value is in progress
FormatInit ==
    /\ fmt_pc = "idle"
    /\ fmt_name = ""
    /\ fmt_value = VNone
    /\ fmt_ret = <<>>
    /\ fmt_exc = NoExc

Init ==
    /\ GeneratorInit
    /\ PlannerInit
    /\ RobotInit
    /\ EnvInit
    /\ CallersInit
    /\ FormatInit

\* generate_code(task_plan) is entered: lines 102-106
Call ==
    /\ pc = "idle"
    /\ \E p \in Plans : task_plan' = Plan(p)
    /\ pc' = "loop"
    /\ idx' = 0
    /\ code_lines' = HeaderLines
    /\ UNCHANGED <<result, exc, norm_arg, norm_ret>>
    /\ UNCHANGED outsideGenerator

InLoop == pc = "loop" /\ idx < Len(task_plan.action_sequence)

CurrentStep == task_plan.action_sequence[idx + 1]

RaiseFrom(e) ==
    /\ pc' = "raised"
    /\ exc' = e
    /\ UNCHANGED <<task_plan, idx, code_lines, result, norm_arg, norm_ret>>
    /\ UNCHANGED outsideGenerator

\* lines 110-111
StepMissingField ==
    /\ InLoop
    /\ LacksParameters(CurrentStep)
    /\ RaiseFrom(MissingFieldError(CurrentStep))

\* lines 113-120
StepUnsupported ==
    /\ InLoop
    /\ ~LacksParameters(CurrentStep)
    /\ ~Supported(NormalizeAction(CurrentStep.action))
    /\ RaiseFrom(UnsupportedActionError(CurrentStep))

\* lines 123-130
StepMissingParams ==
    /\ InLoop
    /\ ~LacksParameters(CurrentStep)
    /\ Supported(NormalizeAction(CurrentStep.action))
    /\ LET action == NormalizeAction(CurrentStep.action)
           missing_params == MissingParams(action, CurrentStep.parameters)
       IN  /\ missing_params # <<>>
           /\ RaiseFrom(MissingParametersError(action, missing_params))

\* lines 133-135, an exception of _format_parameter_value propagating
StepFormatRaises ==
    /\ InLoop
    /\ ~LacksParameters(CurrentStep)
    /\ Supported(NormalizeAction(CurrentStep.action))
    /\ MissingParams(NormalizeAction(CurrentStep.action), CurrentStep.parameters) = <<>>
    /\ FormatFailures(CurrentStep.parameters) # {}
    /\ RaiseFrom(FormatError(CurrentStep.parameters))

\* lines 133-140
StepEmit ==
    /\ InLoop
    /\ ~LacksParameters(CurrentStep)
    /\ Supported(NormalizeAction(CurrentStep.action))
    /\ MissingParams(NormalizeAction(CurrentStep.action), CurrentStep.parameters) = <<>>
    /\ FormatFailures(CurrentStep.parameters) = {}
    /\ code_lines' = Append(code_lines,
           InvocationLine(NormalizeAction(CurrentStep.action), CurrentStep.parameters))
    /\ idx' = idx + 1
    /\ UNCHANGED <<pc, task_plan, result, exc, norm_arg, norm_ret>>
    /\ UNCHANGED outsideGenerator

\* lines 143-149
Finish ==
    /\ pc = "loop"
    /\ idx = Len(task_plan.action_sequence)
    /\ code_lines' = code_lines \o TrailerLines
    /\ result' = Script(code_lines')
    /\ pc' = "returned"
    /\ UNCHANGED <<task_plan, idx, exc, norm_arg, norm_ret>>
    /\ UNCHANGED outsideGenerator

\* _normalize_action(action) is called and returns
Normalize ==
    /\ pc = "idle"
    /\ \E a \in NormInputs :
          /\ norm_arg' = a
          /\ norm_ret' = NormalizeAction(a)
    /\ pc' = "normalized"
    /\ UNCHANGED <<task_plan, idx, code_lines, result, exc>>
    /\ UNCHANGED outsideGenerator

\* the caller has its answer; the generator object waits for the next call
Done ==
    /\ pc \in {"returned", "raised", "normalized"}
    /\ pc' = "idle"
    /\ task_plan' = Plan(<<>>)
    /\ idx' = 0
    /\ code_lines' = <<>>
    /\ result' = <<>>
    /\ exc' = NoExc
    /\ norm_arg' = <<>>
    /\ norm_ret' = <<>>
    /\ UNCHANGED outsideGenerator

Next ==
    \/ Call
    \/ StepMissingField
    \/ StepUnsupported
    \/ StepMissingParams
    \/ StepFormatRaises
    \/ StepEmit
    \/ Finish
    \/ Normalize
    \/ Done

Spec == Init /\ [][Next]_vars

(***************************************************************************)
(* src/src/core/task_planner.py: TaskPlanner.decompose_task and the        *)
(* retried _attempt_task_decomposition.                                    *)
(*                                                                         *)
(* The LLM client is the environment: at each call it either raises or     *)
(* answers with a text.  An answer is a sequence of tokens; a JSON object  *)
(* is written "{", its keys, "}", a JSON array "[", its items, "]".        *)
(***************************************************************************)
\* stop_after_attempt(3)
StopAfterAttempt == 3

\* reraise=True
Reraise == TRUE

\* the exception classes of src/src/utils/error_handler.py and their bases
Bases(type) ==
    CASE type \in {"TaskPlanningError", "SimulationError", "RobotControlError"}
            -> {type, "RoboticsError", "Exception"}
      [] type = "JSONDecodeError" -> {type, "ValueError", "Exception"}
      [] OTHER -> {type, "Exception"}

\* isinstance(e, cls)
IsInstance(e, cls) == cls \in Bases(e.type)

Instructions ==
    {<<>>, <<" ">>, <<"\t", "\n">>, <<"g", "o">>, <<" ", "g", "o", "\n">>}

Contents ==
    {<<"Invalid JSON content">>,
     <<"{", "}">>,
     <<"{", "objective", "}">>,
     <<"{", "action_sequence", "}">>,
     <<"{", "objective", "action_sequence", "}">>,
     <<" ", "{", "action_sequence", "objective", "notes", "}", "\n">>,
     <<"[", "objective", "action_sequence", "]">>,
     <<"[", "objective", "]">>,
     <<"7">>}

\* what the client does at one call of chat.completions.create
ClientRaises(e) == [kind |-> "raises", exc |-> e, content |-> <<>>]

ClientAnswers(content) == [kind |-> "answers", exc |-> NoExc, content |-> content]

ClientBehaviours ==
    {ClientRaises(Raise("Exception", <<"API Error">>)),
     ClientRaises(Raise("TaskPlanningError", <<"Original task error">>))}
    \cup {ClientAnswers(c) : c \in Contents}

\* a parsed JSON value: its kind and, for an object or an array, its keys or items
JsonValue(kind, members) == [kind |-> kind, members |-> members]

NoValue == JsonValue("none", {})

Returns(value) == [ok |-> TRUE, value |-> value, exc |-> NoExc]

Raises(e) == [ok |-> FALSE, value |-> NoValue, exc |-> e]

\* json.loads(text)
JsonLoads(text) ==
    LET n == Len(text)
    IN  IF n >= 2 /\ text[1] = "{" /\ text[n] = "}"
        THEN Returns(JsonValue("object", Range(SubSeq(text, 2, n - 1))))
        ELSE IF n >= 2 /\ text[1] = "[" /\ text[n] = "]"
        THEN Returns(JsonValue("array", Range(SubSeq(text, 2, n - 1))))
        ELSE IF n = 1 /\ IsDigit(text[1])
        THEN Returns(JsonValue("number", {}))
        ELSE Raises(Raise("JSONDecodeError",
                          <<"Expecting value: line 1 column 1 (char 0)">>))

\* required_keys = ["objective", "action_sequence"]
RequiredKeysObjectiveOnly == <<"objective">>

RequiredKeys == <<"objective", "action_sequence">>

\* _validate_task_plan(task_plan): "key in task_plan" for every required key
ValidateTaskPlan(plan) ==
    IF plan.kind = "number"
    THEN Raises(Raise("TypeError", <<"argument of type 'int' is not iterable">>))
    ELSE IF \A i \in 1..Len(RequiredKeys) : RequiredKeys[i] \in plan.members
    THEN Returns(plan)
    ELSE Raises(Raise("ValueError", <<"Invalid task plan structure">>))

\* the two except clauses of _attempt_task_decomposition
Reclassify(e) ==
    IF IsInstance(e, "TaskPlanningError") THEN e
    ELSE Raise("TaskPlanningError", <<"Failed to plan task: ">> \o e.msg)

\* one run of the body of _attempt_task_decomposition, the client behaving as b
Attempt(b) ==
    IF b.kind = "raises" THEN Raises(Reclassify(b.exc))
    ELSE LET parsed == JsonLoads(Strip(b.content))
         IN  IF ~parsed.ok
             THEN Raises(Reclassify(Raise("TaskPlanningError",
                      <<"Failed to parse task plan: ">> \o parsed.exc.msg)))
             ELSE LET validated == ValidateTaskPlan(parsed.value)
                  IN  IF validated.ok THEN validated
                      ELSE Raises(Reclassify(validated.exc))

\* "not instruction.strip()" without the strip
EmptyInstructionNoStrip(text) == text = <<>>

\* not instruction.strip()
EmptyInstruction(text) == Strip(text) = <<>>

\* retry_if_exception_type((Exception,))
RetryIfExceptionType(e) == IsInstance(e, "Exception")

\* what the retrying wrapper raises when it stops after a failed attempt
RetryError(last_exc) ==
    Raise("RetryError", <<"RetryError[<Future state=finished raised ">>
                        \o <<last_exc.type, ">]">>)

WrapperRaises(last_exc) == IF Reraise THEN last_exc ELSE RetryError(last_exc)

\* decompose_task(instruction) with an empty instruction: lines 28-29
DecomposeEmpty ==
    /\ tp_pc = "idle"
    /\ \E text \in Instructions :
          /\ EmptyInstruction(text)
          /\ instruction' = text
    /\ tp_pc' = "raised"
    /\ tp_exc' = Raise("TaskPlanningError", <<"Empty instruction provided">>)
    /\ UNCHANGED <<attempt_number, client_log, attempt_exc, tp_result>>
    /\ UNCHANGED outsidePlanner

\* decompose_task(instruction) enters the retried method: line 32
DecomposeBegin ==
    /\ tp_pc = "idle"
    /\ \E text \in Instructions :
          /\ ~EmptyInstruction(text)
          /\ instruction' = text
    /\ tp_pc' = "attempting"
    /\ attempt_number' = 1
    /\ UNCHANGED <<client_log, attempt_exc, tp_result, tp_exc>>
    /\ UNCHANGED outsidePlanner

\* an attempt calls the client and returns the validated plan: lines 66-82
AttemptReturns ==
    /\ tp_pc = "attempting"
    /\ \E b \in ClientBehaviours :
          /\ Attempt(b).ok
          /\ client_log' = Append(client_log, b)
          /\ tp_result' = Attempt(b).value
    /\ tp_pc' = "returned"
    /\ UNCHANGED <<instruction, attempt_number, attempt_exc, tp_exc>>
    /\ UNCHANGED outsidePlanner

\* an attempt calls the client and raises: lines 66-88
AttemptRaises ==
    /\ tp_pc = "attempting"
    /\ \E b \in ClientBehaviours :
          /\ ~Attempt(b).ok
          /\ client_log' = Append(client_log, b)
          /\ attempt_exc' = Attempt(b).exc
    /\ tp_pc' = "failed"
    /\ UNCHANGED <<instruction, attempt_number, tp_result, tp_exc>>
    /\ UNCHANGED outsidePlanner

\* the wrapper waits and runs the method again: lines 47-52
RetryAgain ==
    /\ tp_pc = "failed"
    /\ RetryIfExceptionType(attempt_exc)
    /\ attempt_number < StopAfterAttempt
    /\ attempt_number' = attempt_number + 1
    /\ tp_pc' = "attempting"
    /\ UNCHANGED <<instruction, client_log, attempt_exc, tp_result, tp_exc>>
    /\ UNCHANGED outsidePlanner

\* the wrapper gives up and decompose_task lets its exception out: lines 33-41, 47-52
RetryStop ==
    /\ tp_pc = "failed"
    /\ ~RetryIfExceptionType(attempt_exc) \/ attempt_number >= StopAfterAttempt
    /\ tp_exc' = IF RetryIfExceptionType(attempt_exc)
                 THEN WrapperRaises(attempt_exc) ELSE attempt_exc
    /\ tp_pc' = "raised"
    /\ UNCHANGED <<instruction, attempt_number, client_log, attempt_exc, tp_result>>
    /\ UNCHANGED outsidePlanner

\* the caller has its answer; the planner waits for the next call
PlannerDone ==
    /\ tp_pc \in {"returned", "raised"}
    /\ tp_pc' = "idle"
    /\ instruction' = <<>>
    /\ attempt_number' = 0
    /\ client_log' = <<>>
    /\ attempt_exc' = NoExc
    /\ tp_result' = NoValue
    /\ tp_exc' = NoExc
    /\ UNCHANGED outsidePlanner

PlannerNext ==
    \/ DecomposeEmpty
    \/ DecomposeBegin
    \/ AttemptReturns
    \/ AttemptRaises
    \/ RetryAgain
    \/ RetryStop
    \/ PlannerDone

PlannerSpec == Init /\ [][PlannerNext]_vars

(***************************************************************************)
(* src/src/simulation/robot_actions.py: RobotActions.  The physics engine  *)
(* is the environment; of its state the model keeps the number of live     *)
(* attachment constraints.  pick_object is given the id of an existing     *)
(* body.  p.removeAllConstraints() either removes every constraint or, if  *)
(* the installed engine offers no such call, raises AttributeError.        *)
(***************************************************************************)
\* the number of operations one run performs
MaxOps == 3

\* move_to_position: the gripper is not touched
GripperAfterMove(open) == open

\* open_gripper: self.gripper_open = True
GripperAfterOpen(open) == TRUE

\* close_gripper: self.gripper_open = False
GripperAfterClose(open) == FALSE

\* pick_object that does not close the gripper
GripperAfterPickNoClose(open) == open

\* pick_object: move_to_position, then close_gripper
GripperAfterPick(open) == GripperAfterClose(GripperAfterMove(open))

\* place_object: move_to_position, then open_gripper
GripperAfterPlace(open) == GripperAfterOpen(GripperAfterMove(open))

\* an operation of RobotActions has run to its end or to an exception
Performed(op, raised) ==
    /\ Len(ops) < MaxOps
    /\ ops' = Append(ops, op)
    /\ ra_raised' = raised
    /\ UNCHANGED outsideRobot

\* lines 12-15
MoveToPosition ==
    /\ Performed("move_to_position", FALSE)
    /\ gripper_open' = GripperAfterMove(gripper_open)
    /\ UNCHANGED constraints

\* lines 17-22
PickObject ==
    /\ Performed("pick_object", FALSE)
    /\ gripper_open' = GripperAfterPick(gripper_open)
    /\ constraints' = constraints + 1

\* lines 24-29, p.removeAllConstraints() removing every constraint
PlaceObject ==
    /\ Performed("place_object", FALSE)
    /\ gripper_open' = GripperAfterPlace(gripper_open)
    /\ constraints' = 0

\* lines 24-29, p.removeAllConstraints() raising AttributeError
PlaceObjectRaises ==
    /\ Performed("place_object", TRUE)
    /\ gripper_open' = GripperAfterPlace(gripper_open)
    /\ UNCHANGED constraints

\* lines 31-34
OpenGripper ==
    /\ Performed("open_gripper", FALSE)
    /\ gripper_open' = GripperAfterOpen(gripper_open)
    /\ UNCHANGED constraints

\* lines 36-39
CloseGripper ==
    /\ Performed("close_gripper", FALSE)
    /\ gripper_open' = GripperAfterClose(gripper_open)
    /\ UNCHANGED constraints

RobotNext ==
    \/ MoveToPosition
    \/ PickObject
    \/ PlaceObject
    \/ PlaceObjectRaises
    \/ OpenGripper
    \/ CloseGripper

RobotSpec == Init /\ [][RobotNext]_vars

(***************************************************************************)
(* src/src/simulation/robot_environment.py: RobotEnvironment.  The physics *)
(* engine is the environment; of its state the model keeps the number of   *)
(* bodies in the simulation (loadURDF returns that number as the new       *)
(* body's id) and whether this process holds a GUI connection, of which    *)
(* the engine allows one.  The dicts cameras and objects are functions     *)
(* from the names they hold; a camera name or object name is one token.    *)
(* A camera's view and projection matrices are functions of its position   *)
(* and target and are left out.                                            *)
(***************************************************************************)
\* add_object is not called once the simulation holds this many bodies
MaxBodies == 4

\* None, and an id that is not None
None == <<>>

Some(id) == <<id>>

EmptyDict == <<>>

\* d[k] = v
DictSet(d, k, v) == [x \in DOMAIN d \cup {k} |-> IF x = k THEN v ELSE d[x]]

CameraNames == {"test_cam", "nonexistent_camera"}

\* (position, target) as the callers pass them
Views ==
    {[position |-> <<2, 2, 2>>, target |-> <<0, 0, 0>>],
     [position |-> <<3, 3, 3>>, target |-> <<1, 1, 1>>]}

ObjectNames == {"cube", "ghost"}

\* os.path.exists(urdf_path): the models directory holds cube.urdf
UrdfExists(object_name) == object_name = "cube"

\* error_handler without the conversion
ErrorHandlerKeepsType(error_type, e) == e

\* the except clauses of error_handler(error_type)
ErrorHandler(error_type, e) ==
    IF IsInstance(e, error_type) THEN e ELSE Raise(error_type, e.msg)

CameraNotFound(name) == Raise("ValueError", <<"Camera ", name, " not found">>)

\* the last call on the environment: its name, its argument, what it raised
\* and the cameras map as it was when the call was made
Called(op, name, e) ==
    env_last' = [op |-> op, name |-> name, exc |-> e, cameras_before |-> cameras]

\* RobotEnvironment(gui): lines 10-28 and 30-51, the engine holding no bodies
Construct ==
    /\ env_state = "none"
    /\ \E gui \in BOOLEAN :
          /\ env_gui' = gui
          /\ gui_given' = gui
          /\ gui_connection' = gui
    /\ cameras' = EmptyDict
    /\ objects' = EmptyDict
    /\ plane_id' = Some(0)
    /\ robot_id' = Some(1)
    /\ bodies' = 2
    /\ env_state' = "ready"
    /\ Called("__init__", "", NoExc)
    /\ UNCHANGED outsideEnv

\* lines 53-71
AddCamera ==
    /\ env_state = "ready"
    /\ \E name \in CameraNames, view \in Views :
          /\ cameras' = DictSet(cameras, name, view)
          /\ Called("add_camera", name, NoExc)
    /\ UNCHANGED <<env_state, env_gui, gui_given, gui_connection, bodies, plane_id,
                   robot_id, objects>>
    /\ UNCHANGED outsideEnv

\* lines 149-166
UpdateCamera ==
    /\ env_state = "ready"
    /\ \E name \in CameraNames, view \in Views :
          /\ cameras' = DictSet(cameras, name, view)
          /\ Called("update_camera", name, NoExc)
    /\ UNCHANGED <<env_state, env_gui, gui_given, gui_connection, bodies, plane_id,
                   robot_id, objects>>
    /\ UNCHANGED outsideEnv

\* lines 110-116
AddObject ==
    /\ env_state = "ready"
    /\ bodies < MaxBodies
    /\ \E name \in ObjectNames :
          /\ UrdfExists(name)
          /\ objects' = DictSet(objects, name, bodies)
          /\ Called("add_object", name, NoExc)
    /\ bodies' = bodies + 1
    /\ UNCHANGED <<env_state, env_gui, gui_given, gui_connection, plane_id, robot_id,
                   cameras>>
    /\ UNCHANGED outsideEnv

\* lines 110-112
AddObjectRaises ==
    /\ env_state = "ready"
    /\ \E name \in ObjectNames :
          /\ ~UrdfExists(name)
          /\ Called("add_object", name,
                    Raise("SimulationError",
                          <<"URDF file not found for object: ", name>>))
    /\ UNCHANGED <<env_state, env_gui, gui_given, gui_connection, bodies, plane_id,
                   robot_id, cameras, objects>>
    /\ UNCHANGED outsideEnv

\* lines 168-175, the camera being there
GetCameraParams ==
    /\ env_state = "ready"
    /\ \E name \in CameraNames :
          /\ name \in DOMAIN cameras
          /\ Called("get_camera_params", name, NoExc)
    /\ UNCHANGED <<env_state, env_gui, gui_given, gui_connection, bodies, plane_id,
                   robot_id, cameras, objects>>
    /\ UNCHANGED outsideEnv

\* lines 170-171
GetCameraParamsRaises ==
    /\ env_state = "ready"
    /\ \E name \in CameraNames :
          /\ name \notin DOMAIN cameras
          /\ Called("get_camera_params", name, CameraNotFound(name))
    /\ UNCHANGED <<env_state, env_gui, gui_given, gui_connection, bodies, plane_id,
                   robot_id, cameras, objects>>
    /\ UNCHANGED outsideEnv

\* lines 73-92, the camera being there
GetCameraImage ==
    /\ env_state = "ready"
    /\ \E name \in CameraNames :
          /\ name \in DOMAIN cameras
          /\ Called("get_camera_image", name, NoExc)
    /\ UNCHANGED <<env_state, env_gui, gui_given, gui_connection, bodies, plane_id,
                   robot_id, cameras, objects>>
    /\ UNCHANGED outsideEnv

\* lines 73-77, under error_handler(SimulationError)
GetCameraImageRaises ==
    /\ env_state = "ready"
    /\ \E name \in CameraNames :
          /\ name \notin DOMAIN cameras
          /\ Called("get_camera_image", name,
                    ErrorHandler("SimulationError", CameraNotFound(name)))
    /\ UNCHANGED <<env_state, env_gui, gui_given, gui_connection, bodies, plane_id,
                   robot_id, cameras, objects>>
    /\ UNCHANGED outsideEnv

\* reset, headless: p.resetSimulation(), then __init__(gui=self.gui) connects
\* in DIRECT mode, empties the maps and loads the plane and the robot again
Reset ==
    /\ env_state = "ready"
    /\ ~(env_gui /\ gui_connection)
    /\ env_gui' = env_gui
    /\ cameras' = EmptyDict
    /\ objects' = EmptyDict
    /\ plane_id' = Some(0)
    /\ robot_id' = Some(1)
    /\ bodies' = 2
    /\ Called("reset", "", NoExc)
    /\ UNCHANGED <<env_state, gui_given, gui_connection>>
    /\ UNCHANGED outsideEnv

\* reset, GUI: p.resetSimulation() removes every body, then p.connect(p.GUI)
\* at line 18 is refused, this process holding a GUI connection already, and
\* the exception leaves __init__ before line 22
ResetRaises ==
    /\ env_state = "ready"
    /\ env_gui /\ gui_connection
    /\ bodies' = 0
    /\ env_gui' = env_gui
    /\ Called("reset", "",
              Raise("pybullet.error",
                    <<"Only one local in-process GUI/GUI_SERVER connection allowed.">>))
    /\ UNCHANGED <<env_state, gui_given, gui_connection, plane_id, robot_id, cameras,
                   objects>>
    /\ UNCHANGED outsideEnv

EnvNext ==
    \/ Construct
    \/ AddCamera
    \/ UpdateCamera
    \/ AddObject
    \/ AddObjectRaises
    \/ GetCameraParams
    \/ GetCameraParamsRaises
    \/ GetCameraImage
    \/ GetCameraImageRaises
    \/ Reset
    \/ ResetRaises

EnvSpec == Init /\ [][EnvNext]_vars

(***************************************************************************)
(* Several callers of one RobotCodeGenerator.  Each invocation has its own *)
(* frame: the argument it was given and the locals of generate_code        *)
(* (task_plan, the loop position, code_lines) or of _normalize_action.     *)
(* One action is one step of one caller, so the callers' invocations       *)
(* interleave in every order.  tables are the three class-level dicts all  *)
(* invocations read.                                                       *)
(***************************************************************************)
Callers == 1..NCallers

Tables == <<ACTION_ALIASES, SUPPORTED_ACTIONS, REQUIRED_PARAMETERS>>

\* the plans the callers submit: one per way generate_code can end
ConcPlans ==
    {<<>>,
     <<Step(S_goto, TRUE, << <<"position", VList(<<0, 0, 1>>)>> >>)>>,
     <<Step(S_rotate, TRUE, << <<"angle", VInt(90)>> >>), Step(S_open_gripper, TRUE, <<>>)>>,
     <<Step(S_open_gripper, TRUE, <<>>), Step(S_open_gripper, FALSE, <<>>)>>,
     <<Step(S_fly, TRUE, <<>>)>>,
     <<Step(S_goto, TRUE, <<>>)>>,
     <<Step(S_rotate, TRUE, << <<"angle", VStr(S_abc)>> >>)>>}

ConcNames == {S_PlaceOn, S_MOVE_TO_padded}

\* a caller that is not inside a call
IdleFrame ==
    [pc |-> "idle", submitted |-> Plan(<<>>), task_plan |-> Plan(<<>>), idx |-> 0,
     code_lines |-> <<>>, result |-> <<>>, exc |-> NoExc,
     norm_arg |-> <<>>, norm_ret |-> <<>>]

\* code_lines as one list shared by the callers
LinesOfShared(c) == frames[1].code_lines

\* code_lines, a local of caller c's invocation of generate_code
LinesOf(c) == frames[c].code_lines

FrameInLoop(c) ==
    frames[c].pc = "loop" /\ frames[c].idx < Len(frames[c].task_plan.action_sequence)

FrameStep(c) == frames[c].task_plan.action_sequence[frames[c].idx + 1]

FrameRaise(c, e) ==
    /\ frames' = [frames EXCEPT ![c].pc = "raised", ![c].exc = e]
    /\ UNCHANGED tables
    /\ UNCHANGED outsideCallers

\* generate_code(task_plan) is entered by a caller: lines 102-106
ConcCall ==
    \E c \in Callers, p \in ConcPlans :
        /\ frames[c].pc = "idle"
        /\ frames' = [frames EXCEPT ![c].pc = "loop",
                                    ![c].submitted = Plan(p),
                                    ![c].task_plan = Plan(p),
                                    ![c].idx = 0,
                                    ![c].code_lines = HeaderLines]
        /\ UNCHANGED tables
        /\ UNCHANGED outsideCallers

\* lines 110-111
ConcStepMissingField ==
    \E c \in Callers :
        /\ FrameInLoop(c)
        /\ LacksParameters(FrameStep(c))
        /\ FrameRaise(c, MissingFieldError(FrameStep(c)))

\* lines 113-120
ConcStepUnsupported ==
    \E c \in Callers :
        /\ FrameInLoop(c)
        /\ ~LacksParameters(FrameStep(c))
        /\ ~Supported(NormalizeAction(FrameStep(c).action))
        /\ FrameRaise(c, UnsupportedActionError(FrameStep(c)))

\* lines 123-130
ConcStepMissingParams ==
    \E c \in Callers :
        /\ FrameInLoop(c)
        /\ ~LacksParameters(FrameStep(c))
        /\ Supported(NormalizeAction(FrameStep(c).action))
        /\ LET action == NormalizeAction(FrameStep(c).action)
               missing_params == MissingParams(action, FrameStep(c).parameters)
           IN  /\ missing_params # <<>>
               /\ FrameRaise(c, MissingParametersError(action, missing_params))

\* lines 133-135, an exception of _format_parameter_value propagating
ConcStepFormatRaises ==
    \E c \in Callers :
        /\ FrameInLoop(c)
        /\ ~LacksParameters(FrameStep(c))
        /\ Supported(NormalizeAction(FrameStep(c).action))
        /\ MissingParams(NormalizeAction(FrameStep(c).action), FrameStep(c).parameters) = <<>>
        /\ FormatFailures(FrameStep(c).parameters) # {}
        /\ FrameRaise(c, FormatError(FrameStep(c).parameters))

\* lines 133-140
ConcStepEmit ==
    \E c \in Callers :
        /\ FrameInLoop(c)
        /\ ~LacksParameters(FrameStep(c))
        /\ Supported(NormalizeAction(FrameStep(c).action))
        /\ MissingParams(NormalizeAction(FrameStep(c).action), FrameStep(c).parameters) = <<>>
        /\ FormatFailures(FrameStep(c).parameters) = {}
        /\ frames' = [frames EXCEPT
               ![c].code_lines =
                   Append(LinesOf(c),
                          InvocationLine(NormalizeAction(FrameStep(c).action),
                                         FrameStep(c).parameters)),
               ![c].idx = frames[c].idx + 1]
        /\ UNCHANGED tables
        /\ UNCHANGED outsideCallers

\* lines 143-149
ConcFinish ==
    \E c \in Callers :
        /\ frames[c].pc = "loop"
        /\ frames[c].idx = Len(frames[c].task_plan.action_sequence)
        /\ frames' = [frames EXCEPT
               ![c].code_lines = LinesOf(c) \o TrailerLines,
               ![c].result = Script(LinesOf(c) \o TrailerLines),
               ![c].pc = "returned"]
        /\ UNCHANGED tables
        /\ UNCHANGED outsideCallers

\* _normalize_action(action) is called by a caller and returns
ConcNormalize ==
    \E c \in Callers, a \in ConcNames :
        /\ frames[c].pc = "idle"
        /\ frames' = [frames EXCEPT ![c].pc = "normalized",
                                    ![c].norm_arg = a,
                                    ![c].norm_ret = NormalizeAction(a)]
        /\ UNCHANGED tables
        /\ UNCHANGED outsideCallers

\* a caller has its answer and may call again
ConcDone ==
    \E c \in Callers :
        /\ frames[c].pc \in {"returned", "raised", "normalized"}
        /\ frames' = [frames EXCEPT ![c] = IdleFrame]
        /\ UNCHANGED tables
        /\ UNCHANGED outsideCallers

ConcNext ==
    \/ ConcCall
    \/ ConcStepMissingField
    \/ ConcStepUnsupported
    \/ ConcStepMissingParams
    \/ ConcStepFormatRaises
    \/ ConcStepEmit
    \/ ConcFinish
    \/ ConcNormalize
    \/ ConcDone

ConcSpec == Init /\ [][ConcNext]_vars

(***************************************************************************)
(* _format_parameter_value called on its own, on every parameter name and  *)
(* on values of every type of the model: ints, a float, None, lists of     *)
(* ints and every string of at most MaxText characters drawn from a        *)
(* letter, the quote, the backslash and the newline.  (A tuple is treated  *)
(* by the source as the list of its elements; the model has lists only.)   *)
(***************************************************************************)
\* the longest string of FormatChars passed as a value
MaxText == 2

FormatNames == {"position", "object", "angle", "speed"}

FormatChars == {"c", "'", "\\", "\n"}

RECURSIVE Texts(_)
\* the strings of at most n characters of FormatChars
Texts(n) ==
    IF n = 0 THEN {<<>>}
    ELSE Texts(n - 1)
         \cup {Append(t, ch) : t \in {u \in Texts(n - 1) : Len(u) = n - 1},
                               ch \in FormatChars}

FormatValues ==
    {VStr(t) : t \in Texts(MaxText) \cup {S_shelf, S_45_5}}
    \cup {VInt(5), VInt(90), VFloat(90, 5), VNone,
          VList(<<>>), VList(<<0, 0, 1>>), VList(<<3, 2>>)}

\* _format_parameter_value(param_name, value) is called and returns: lines 76-86
Format ==
    /\ fmt_pc = "idle"
    /\ \E name \in FormatNames, value \in FormatValues :
          /\ FormatParameterValue(name, value).ok
          /\ fmt_name' = name
          /\ fmt_value' = value
          /\ fmt_ret' = FormatParameterValue(name, value).text
    /\ fmt_pc' = "returned"
    /\ UNCHANGED fmt_exc
    /\ UNCHANGED outsideFormat

\* _format_parameter_value(param_name, value) is called and float() raises: line 85
FormatRaises ==
    /\ fmt_pc = "idle"
    /\ \E name \in FormatNames, value \in FormatValues :
          /\ ~FormatParameterValue(name, value).ok
          /\ fmt_name' = name
          /\ fmt_value' = value
          /\ fmt_exc' = FormatParameterValue(name, value).exc
    /\ fmt_pc' = "raised"
    /\ UNCHANGED fmt_ret
    /\ UNCHANGED outsideFormat

\* the caller has its answer
FormatDone ==
    /\ fmt_pc \in {"returned", "raised"}
    /\ fmt_pc' = "idle"
    /\ fmt_name' = ""
    /\ fmt_value' = VNone
    /\ fmt_ret' = <<>>
    /\ fmt_exc' = NoExc
    /\ UNCHANGED outsideFormat

FormatNext ==
    \/ Format
    \/ FormatRaises
    \/ FormatDone

FormatSpec == Init /\ [][FormatNext]_vars

(***************************************************************************)
(* Vocabulary of the properties.                                           *)
(***************************************************************************)
\* the eight canonical actions and the thirteen aliases the specification names
CanonicalActions ==
    {S_move_to, S_pick_up, S_place, S_locate_object, S_identify_object,
     S_rotate, S_open_gripper, S_close_gripper}

AliasNames ==
    {S_move, S_goto, S_pickup, S_grab, S_put, S_place_on, S_find, S_locate,
     S_identify, S_check, S_turn, S_open, S_close}

Targets == {SUPPORTED_ACTIONS[i][2] : i \in 1..Len(SUPPORTED_ACTIONS)}

Sequence == task_plan.action_sequence

Finished == pc \in {"returned", "raised"}

\* generate_code has been entered and not yet forgotten
Entered == pc \in {"loop", "returned", "raised"}

RECURSIVE SplitOn(_, _)
\* text.split(sep)
SplitOn(text, sep) ==
    IF sep \notin Range(text) THEN <<text>>
    ELSE LET k == CHOOSE i \in 1..Len(text) :
                      text[i] = sep /\ \A j \in 1..(i - 1) : text[j] # sep
         IN  <<SubSeq(text, 1, k - 1)>> \o SplitOn(SubSeq(text, k + 1, Len(text)), sep)

IsPrefix(p, t) == Len(p) <= Len(t) /\ SubSeq(t, 1, Len(p)) = p

\* the kind of a failure, told from the exception's type and message
Kind(e) ==
    CASE e.type = "KeyError" /\ IsPrefix(<<"Missing '", "parameters", "' field in action step: ">>, e.msg)
            -> "missing-field"
      [] e.type = "ValueError" /\ IsPrefix(<<"Unsupported action: ">>, e.msg)
            -> "unsupported-action"
      [] e.type = "ValueError" /\ IsPrefix(<<"Missing required parameters for action '">>, e.msg)
            -> "missing-parameters"
      [] OTHER -> "other"

\* the required parameters of a step's action that its mapping lacks
Absent(step) ==
    {p \in Range(Lookup(REQUIRED_PARAMETERS, NormalizeAction(step.action))) :
        \A i \in 1..Len(step.parameters) : step.parameters[i][1] # p}

\* a step none of the three validations rejects
StepValid(step) ==
    /\ step.has_parameters
    /\ NormalizeAction(step.action) \in CanonicalActions
    /\ Absent(step) = {}

\* the error of an invalid step
StepError(step) ==
    IF ~step.has_parameters THEN MissingFieldError(step)
    ELSE IF NormalizeAction(step.action) \notin CanonicalActions
    THEN UnsupportedActionError(step)
    ELSE MissingParametersError(NormalizeAction(step.action),
             SelectSeq(Lookup(REQUIRED_PARAMETERS, NormalizeAction(step.action)),
                       LAMBDA p : p \in Absent(step)))

Invalid == {i \in 1..Len(Sequence) : ~StepValid(Sequence[i])}

FirstInvalid == CHOOSE i \in Invalid : \A j \in Invalid : i <= j

\* the lines of the returned script, and those between header and trailer
Lines == SplitOn(result, "\n")

BodyLines == SubSeq(Lines, Len(HeaderLines) + 1, Len(Lines) - 3)

IsInvocationLine(line) ==
    Len(line) >= 4 /\ line[1] = "        " /\ line[2] \in Targets /\ line[3] = "("
    /\ line[Len(line)] = ")"

TargetOf(step) ==
    SUPPORTED_ACTIONS[CHOOSE i \in 1..Len(SUPPORTED_ACTIONS) :
                          SUPPORTED_ACTIONS[i][1] = NormalizeAction(step.action)][2]

(***************************************************************************)
(* C1.  For a plan whose steps are all valid, generate_code returns a      *)
(* script with exactly one invocation line per step, the i-th line         *)
(* invoking the target of the i-th step's canonical action.                *)
(***************************************************************************)
C1_OneLinePerStepInOrder ==
    (Finished /\ Invalid = {}) =>
        /\ pc = "returned"
        /\ Len(BodyLines) = Len(Sequence)
        /\ \A i \in 1..Len(Sequence) :
              IsInvocationLine(BodyLines[i]) /\ BodyLines[i][2] = TargetOf(Sequence[i])

(***************************************************************************)
(* C2.  If any step is invalid the call raises, returns no script text,    *)
(* and the error is the one of the first invalid step in sequence order.   *)
(***************************************************************************)
C2_FailFastFirstInvalid ==
    (Finished /\ Invalid # {}) =>
        /\ pc = "raised"
        /\ result = <<>>
        /\ exc = StepError(Sequence[FirstInvalid])

(***************************************************************************)
(* C3.  Every failure of generate_code is of exactly one of the three      *)
(* kinds missing-field, unsupported-action, missing-parameters.            *)
(***************************************************************************)
C3_ThreeKindsOnly ==
    pc = "raised" =>
        Kind(exc) \in {"missing-field", "unsupported-action", "missing-parameters"}

(***************************************************************************)
(* C4.  A step with no 'parameters' entry fails with the missing-field     *)
(* error, whose message mentions "parameters", and never passes; a step    *)
(* whose 'parameters' entry is an empty mapping never raises               *)
(* missing-field, and it compiles when its action is open_gripper or       *)
(* close_gripper.                                                          *)
(***************************************************************************)
C4_MissingFieldOnlyWithoutEntry ==
    /\ Entered => \A i \in 1..idx : Sequence[i].has_parameters
    /\ pc = "raised" =>
          /\ ~CurrentStep.has_parameters =>
                Kind(exc) = "missing-field" /\ "parameters" \in Range(exc.msg)
          /\ CurrentStep.has_parameters => Kind(exc) # "missing-field"
    /\ (/\ Finished
        /\ Len(Sequence) = 1
        /\ Sequence[1].has_parameters
        /\ Sequence[1].parameters = <<>>
        /\ NormalizeAction(Sequence[1].action) \in {S_open_gripper, S_close_gripper})
          => pc = "returned"

\* the second step of a plan has no 'parameters' entry and the call has failed on it
C4_Witness ==
    /\ pc = "raised"
    /\ idx = 1
    /\ ~CurrentStep.has_parameters
    /\ Sequence[1].parameters = <<>>

C6_MissingParametersExact ==
    /\ Entered => \A i \in 1..idx : Absent(Sequence[i]) = {}
    /\ (/\ pc = "raised"
        /\ CurrentStep.has_parameters
        /\ NormalizeAction(CurrentStep.action) \in CanonicalActions)
          => IF Absent(CurrentStep) # {}
             THEN LET head == <<"Missing required parameters for action '">>
                                 \o NormalizeAction(CurrentStep.action) \o <<"': ">>
                      named == SplitOn(SubSeq(exc.msg, Len(head) + 1, Len(exc.msg)), ", ")
                  IN  /\ Kind(exc) = "missing-parameters"
                      /\ IsPrefix(head, exc.msg)
                      /\ Range(named) = {<<p>> : p \in Absent(CurrentStep)}
                      /\ Len(named) = Cardinality(Absent(CurrentStep))
             ELSE Kind(exc) # "missing-parameters"

\* move_to is given 'object' but not 'position', and the call has failed on it
C6_Witness ==
    /\ pc = "raised"
    /\ CurrentStep.has_parameters
    /\ NormalizeAction(CurrentStep.action) = S_move_to
    /\ Absent(CurrentStep) = {"position"}
    /\ \E i \in 1..Len(CurrentStep.parameters) : CurrentStep.parameters[i][1] = "object"

(***************************************************************************)
(* C7.  An alias written in any letter casing, with any whitespace around  *)
(* it, normalizes to the alias's target; 'placeon' written so normalizes   *)
(* to 'place'.                                                             *)
(***************************************************************************)
\* x is the word w in some letter casing, with whitespace before and after it
IsWritingOf(x, w) ==
    \E lo \in 0..(Len(x) - Len(w)) :
        /\ \A i \in 1..lo : x[i] \in Whitespace
        /\ \A i \in 1..Len(w) : x[lo + i] \in {w[i], UpperChar(w[i])}
        /\ \A i \in (lo + Len(w) + 1)..Len(x) : x[i] \in Whitespace

C7_AliasesInAnyWriting ==
    pc = "normalized" =>
        /\ \A i \in 1..Len(ACTION_ALIASES) :
              IsWritingOf(norm_arg, ACTION_ALIASES[i][1]) => norm_ret = ACTION_ALIASES[i][2]
        /\ IsWritingOf(norm_arg, S_placeon) => norm_ret = S_place

\* an alias has been normalized that was written with capitals and padded on both sides
C7_Witness ==
    /\ pc = "normalized"
    /\ \E i \in 1..Len(ACTION_ALIASES) : IsWritingOf(norm_arg, ACTION_ALIASES[i][1])
    /\ Range(norm_arg) \cap Range(Uppers) # {}
    /\ norm_arg[1] \in Whitespace
    /\ norm_arg[Len(norm_arg)] \in Whitespace

(***************************************************************************)
(* C8.  SUPPORTED_ACTIONS and REQUIRED_PARAMETERS have the same keys, the  *)
(* eight canonical actions, each once; every alias target is a key of      *)
(* both; so the action of every step that passed the support check is a    *)
(* key of both tables.                                                     *)
(***************************************************************************)
C8_TablesConsistent ==
    /\ Range(Keys(SUPPORTED_ACTIONS)) = CanonicalActions
    /\ Range(Keys(REQUIRED_PARAMETERS)) = CanonicalActions
    /\ Len(SUPPORTED_ACTIONS) = Cardinality(CanonicalActions)
    /\ Len(REQUIRED_PARAMETERS) = Cardinality(CanonicalActions)
    /\ \A i \in 1..Len(ACTION_ALIASES) :
          /\ HasKey(SUPPORTED_ACTIONS, ACTION_ALIASES[i][2])
          /\ HasKey(REQUIRED_PARAMETERS, ACTION_ALIASES[i][2])
    /\ Entered => \A i \in 1..idx :
          /\ HasKey(SUPPORTED_ACTIONS, NormalizeAction(Sequence[i].action))
          /\ HasKey(REQUIRED_PARAMETERS, NormalizeAction(Sequence[i].action))

\* a step written with an alias has passed the support check and both lookups
C8_Witness ==
    /\ pc = "loop"
    /\ idx = 1
    /\ Sequence[1].action \in AliasNames

(***************************************************************************)
(* C9.  A single-step plan that uses a canonical action with exactly its   *)
(* required parameters present compiles, and the script contains the       *)
(* invocation of the action's target.                                      *)
(***************************************************************************)
C9_CanonicalWithRequiredCompiles ==
    (/\ Finished
     /\ Len(Sequence) = 1
     /\ Sequence[1].action \in CanonicalActions
     /\ Sequence[1].has_parameters
     /\ Absent(Sequence[1]) = {}
     /\ Len(Sequence[1].parameters) = Len(Lookup(REQUIRED_PARAMETERS, Sequence[1].action)))
       => /\ pc = "returned"
          /\ \E k \in 1..(Len(result) - 1) :
                result[k] = TargetOf(Sequence[1]) /\ result[k + 1] = "("

(***************************************************************************)
(* C10.  Every returned script begins with the header comment, the         *)
(* routine definition and the start of the protective block, ends with     *)
(* the handler that logs and re-raises, and has its invocation lines, one  *)
(* per step, between the two; for an empty action_sequence it has none.    *)
(***************************************************************************)
C10_FixedSkeleton ==
    pc = "returned" =>
        /\ Len(Lines) = 6 + Len(Sequence)
        /\ SubSeq(Lines, 1, 3) =
              << <<"# Auto-generated Robotic Task Execution Script">>,
                 <<"def execute_robot_task():">>,
                 <<"    try:">> >>
        /\ SubSeq(Lines, Len(Lines) - 2, Len(Lines)) =
              << <<"    except Exception as e:">>,
                 <<"        logging.error(f'Task execution failed: {e}')">>,
                 <<"        raise">> >>
        /\ \A i \in 1..Len(Lines) :
              IsInvocationLine(Lines[i]) <=> (3 < i /\ i <= Len(Lines) - 3)

\* a script of two invocation lines has been returned
C10_Witness ==
    /\ pc = "returned"
    /\ Len(Sequence) = 2
    /\ Len(Lines) = 8

(***************************************************************************)
(* C20.  Within one step the checks run in the order missing-field,        *)
(* unsupported-action, missing-parameters: a step with no 'parameters'     *)
(* entry fails with missing-field even when its action is unknown, a step  *)
(* with an entry and an unknown action fails with unsupported-action       *)
(* whatever the mapping holds, and missing-parameters is raised only for   *)
(* a step that has an entry and a known action.                            *)
(***************************************************************************)
C20_CheckOrder ==
    pc = "raised" =>
        LET step == CurrentStep
            known == NormalizeAction(step.action) \in CanonicalActions
        IN  /\ ~step.has_parameters => Kind(exc) = "missing-field"
            /\ (step.has_parameters /\ ~known) => Kind(exc) = "unsupported-action"
            /\ Kind(exc) = "missing-parameters" => (step.has_parameters /\ known)

\* the call has failed on a step that has no 'parameters' entry and an unknown action
C20_Witness ==
    /\ pc = "raised"
    /\ ~CurrentStep.has_parameters
    /\ NormalizeAction(CurrentStep.action) \notin CanonicalActions
    /\ Kind(exc) = "missing-field"

(***************************************************************************)
(* The capability object the emitted script runs against: the methods of   *)
(* class RobotActions.                                                     *)
(***************************************************************************)
RobotActionsMethods ==
    {"move_to_position", "pick_object", "place_object", "open_gripper",
     "close_gripper", "_inverse_kinematics", "_execute_joint_movement"}

\* the operation of self.robot that an emitted token names
OperationOf(token) ==
    CASE token = "self.robot.move_to_position" -> "move_to_position"
      [] token = "self.robot.pick_object" -> "pick_object"
      [] token = "self.robot.place_object" -> "place_object"
      [] token = "self.robot.locate_object" -> "locate_object"
      [] token = "self.robot.identify_object" -> "identify_object"
      [] token = "self.robot.rotate" -> "rotate"
      [] token = "self.robot.open_gripper" -> "open_gripper"
      [] token = "self.robot.close_gripper" -> "close_gripper"
      [] token = "self.robot.get_position('" -> "get_position"
      [] OTHER -> "none"

\* the operations of self.robot that the lines of a script name
OperationsNamed(lines) ==
    UNION {{OperationOf(lines[i][j]) : j \in 1..Len(lines[i])} : i \in 1..Len(lines)}
        \ {"none"}

(***************************************************************************)
(* C12.  Every operation named by a returned script (the invocation        *)
(* targets and the get_position lookup) is a method of RobotActions.       *)
(***************************************************************************)
C12_ScriptOperationsOffered ==
    pc = "returned" => OperationsNamed(BodyLines) \subseteq RobotActionsMethods

(***************************************************************************)
(* Vocabulary of the properties of decompose_task.                         *)
(***************************************************************************)
\* the instruction is empty or made of whitespace only
Blank(text) == \A i \in 1..Len(text) : text[i] \in Whitespace

PlannerFinished == tp_pc \in {"returned", "raised"}

\* the client answered with a JSON object that lacks a required key
StructurallyInvalid(b) ==
    /\ b.kind = "answers"
    /\ "{" \in Range(b.content)
    /\ ~({"objective", "action_sequence"} \subseteq Range(b.content))

\* the client answered with JSON that holds both required keys
WellFormed(b) ==
    /\ b.kind = "answers"
    /\ Range(b.content) \cap {"{", "["} # {}
    /\ {"objective", "action_sequence"} \subseteq Range(b.content)

IsSuffix(x, t) == Len(x) <= Len(t) /\ SubSeq(t, Len(t) - Len(x) + 1, Len(t)) = x

(***************************************************************************)
(* C13.  decompose_task on an empty or whitespace-only instruction fails   *)
(* at once with TaskPlanningError("Empty instruction provided"): no        *)
(* attempt is started and the client is never called.                      *)
(***************************************************************************)
C13_EmptyInstructionFailsAtOnce ==
    (tp_pc # "idle" /\ Blank(instruction)) =>
        /\ tp_pc = "raised"
        /\ tp_exc = Raise("TaskPlanningError", <<"Empty instruction provided">>)
        /\ attempt_number = 0
        /\ client_log = <<>>

\* the call with a whitespace-only instruction has failed
C13_Witness ==
    /\ tp_pc = "raised"
    /\ instruction = <<"\t", "\n">>
    /\ client_log = <<>>

(***************************************************************************)
(* C14.  When every call of the client fails, decompose_task stops after   *)
(* exactly 3 attempts and raises a RetryError whose last attempt is        *)
(* attempt 3 and holds a TaskPlanningError with the client's message.      *)
(***************************************************************************)
C14_RetryErrorAfterThreeAttempts ==
    (tp_pc = "raised" /\ client_log # <<>>) =>
        /\ Len(client_log) = 3
        /\ attempt_number = 3
        /\ attempt_exc.type = "TaskPlanningError"
        /\ client_log[3].kind = "raises" => IsSuffix(client_log[3].exc.msg, attempt_exc.msg)
        /\ tp_exc.type = "RetryError"

(***************************************************************************)
(* C15.  A structurally invalid answer (a JSON object lacking 'objective'  *)
(* or 'action_sequence') makes decompose_task fail after exactly one       *)
(* client call, and a TaskPlanningError raised inside an attempt is never  *)
(* followed by another attempt.                                            *)
(***************************************************************************)
C15_InvalidStructureNotRetried ==
    /\ (PlannerFinished /\ client_log # <<>> /\ StructurallyInvalid(client_log[1]))
          => Len(client_log) = 1
    /\ (tp_pc = "attempting" /\ attempt_number > 1)
          => attempt_exc.type # "TaskPlanningError"

(***************************************************************************)
(* C16.  decompose_task returns a plan only from a successful attempt:     *)
(* the returned plan contains 'objective' and 'action_sequence', it is     *)
(* the answer to the last client call, every earlier call belongs to a     *)
(* failed attempt, and a first attempt that succeeds makes one call.       *)
(***************************************************************************)
C16_ReturnsOnlyValidatedPlan ==
    /\ tp_pc = "returned" =>
          /\ {"objective", "action_sequence"} \subseteq tp_result.members
          /\ Len(client_log) = attempt_number
          /\ WellFormed(client_log[Len(client_log)])
          /\ \A i \in 1..(Len(client_log) - 1) : ~WellFormed(client_log[i])
    /\ (PlannerFinished /\ client_log # <<>> /\ WellFormed(client_log[1]))
          => (tp_pc = "returned" /\ Len(client_log) = 1)
    /\ tp_pc # "returned" => tp_result = NoValue

\* the third attempt succeeded after two failed ones
C16_Witness ==
    /\ tp_pc = "returned"
    /\ Len(client_log) = 3
    /\ tp_result.kind = "object"

(***************************************************************************)
(* Vocabulary of the properties of RobotActions.                           *)
(***************************************************************************)
\* the places in ops of the operations that set the gripper flag
GripperOps ==
    {i \in 1..Len(ops) :
        ops[i] \in {"open_gripper", "place_object", "close_gripper", "pick_object"}}

LastGripperOp == ops[CHOOSE i \in GripperOps : \A j \in GripperOps : j <= i]

(***************************************************************************)
(* C17.  gripper_open tracks the last gripper-affecting operation: it is   *)
(* True initially and after open_gripper or place_object, False after      *)
(* close_gripper or pick_object, and move_to_position leaves it as it was. *)
(***************************************************************************)
C17_GripperTracksLastOperation ==
    IF GripperOps = {} THEN gripper_open = TRUE
    ELSE gripper_open = (LastGripperOp \in {"open_gripper", "place_object"})

\* the gripper is still closed after pick_object followed by two moves
C17_Witness ==
    /\ ops = <<"pick_object", "move_to_position", "move_to_position">>
    /\ gripper_open = FALSE

(***************************************************************************)
(* C18.  After reset, whatever add_camera, update_camera and add_object    *)
(* calls came before, cameras and objects are empty, robot_id and          *)
(* plane_id are not None and gui is the setting given at construction.     *)
(***************************************************************************)
C18_ResetRestoresFreshEnvironment ==
    env_last.op = "reset" =>
        /\ DOMAIN cameras = {}
        /\ DOMAIN objects = {}
        /\ robot_id # None
        /\ plane_id # None
        /\ env_gui = gui_given

(***************************************************************************)
(* C19.  For a name that is not in the cameras map, get_camera_params      *)
(* raises ValueError and get_camera_image raises SimulationError with the  *)
(* same message, and the call leaves the cameras map as it was, without    *)
(* the name.                                                               *)
(***************************************************************************)
C19_UnknownCameraRaises ==
    (/\ env_last.op \in {"get_camera_params", "get_camera_image"}
     /\ env_last.name \notin DOMAIN env_last.cameras_before) =>
        /\ env_last.op = "get_camera_params" => env_last.exc.type = "ValueError"
        /\ env_last.op = "get_camera_image" => env_last.exc.type = "SimulationError"
        /\ env_last.exc.msg = <<"Camera ", env_last.name, " not found">>
        /\ cameras = env_last.cameras_before
        /\ env_last.name \notin DOMAIN cameras

\* get_camera_image has failed for a name the map lacks, another camera being there
C19_Witness ==
    /\ env_last.op = "get_camera_image"
    /\ env_last.name = "nonexistent_camera"
    /\ DOMAIN cameras = {"test_cam"}
    /\ env_last.exc.type = "SimulationError"

(***************************************************************************)
(* Vocabulary of the properties of concurrent callers: what generate_code  *)
(* gives on a plan when it runs alone, from step i on with the lines       *)
(* written so far.                                                         *)
(***************************************************************************)
Outcome(kind, text, e) == [pc |-> kind, result |-> text, exc |-> e]

RECURSIVE RunFrom(_, _, _)
RunFrom(sequence, i, lines) ==
    IF i > Len(sequence) THEN Outcome("returned", Script(lines \o TrailerLines), NoExc)
    ELSE LET step == sequence[i]
             action == NormalizeAction(step.action)
         IN  IF ~step.has_parameters
             THEN Outcome("raised", <<>>, MissingFieldError(step))
             ELSE IF ~HasKey(SUPPORTED_ACTIONS, action)
             THEN Outcome("raised", <<>>, UnsupportedActionError(step))
             ELSE IF MissingParams(action, step.parameters) # <<>>
             THEN Outcome("raised", <<>>,
                          MissingParametersError(action,
                              MissingParams(action, step.parameters)))
             ELSE IF FormatFailures(step.parameters) # {}
             THEN Outcome("raised", <<>>, FormatError(step.parameters))
             ELSE RunFrom(sequence, i + 1,
                          Append(lines, InvocationLine(action, step.parameters)))

RunAlone(plan) == RunFrom(plan.action_sequence, 1, HeaderLines)

(***************************************************************************)
(* C11.  generate_code and _normalize_action only read their input and    *)
(* the tables: however the invocations of several callers interleave, the  *)
(* tables and every submitted plan stay as they were, and every            *)
(* invocation ends with the result, or the failure, that it gives when it  *)
(* runs alone on its plan.                                                 *)
(***************************************************************************)
C11_InvocationsDoNotInterfere ==
    /\ tables = <<ACTION_ALIASES, SUPPORTED_ACTIONS, REQUIRED_PARAMETERS>>
    /\ \A c \in Callers :
          /\ frames[c].task_plan = frames[c].submitted
          /\ frames[c].pc \in {"returned", "raised"} =>
                Outcome(frames[c].pc, frames[c].result, frames[c].exc)
                    = RunAlone(frames[c].submitted)
          /\ frames[c].pc = "normalized" =>
                frames[c].norm_ret = NormalizeAction(frames[c].norm_arg)

\* two callers have finished different plans whose steps were interleaved:
\* the second has its script while the first has failed
C11_Witness ==
    /\ frames[1].pc = "raised"
    /\ frames[2].pc = "returned"
    /\ Len(frames[2].submitted.action_sequence) = 2
    /\ Len(frames[1].submitted.action_sequence) = 2

(***************************************************************************)
(* C24.  _normalize_action is idempotent: normalizing its result gives     *)
(* the result again.  No canonical action name is an alias key and each    *)
(* normalizes to itself; a name that, lower-cased and trimmed, is neither  *)
(* an alias nor 'placeon' is returned lower-cased and trimmed.             *)
(***************************************************************************)
C24_NormalizeIdempotent ==
    /\ \A c \in CanonicalActions :
          c \notin Range(Keys(ACTION_ALIASES)) /\ NormalizeAction(c) = c
    /\ pc = "normalized" =>
          /\ NormalizeAction(norm_ret) = norm_ret
          /\ Strip(Lower(norm_arg)) \notin AliasNames \cup {S_placeon}
                => norm_ret = Strip(Lower(norm_arg))
          /\ Strip(Lower(norm_arg)) \in AliasNames \cup {S_placeon}
                => norm_ret \in CanonicalActions

\* 'put', written in capitals with whitespace around it, has been normalized
C24_Witness ==
    /\ pc = "normalized"
    /\ Strip(Lower(norm_arg)) = S_put
    /\ norm_arg # S_put
    /\ norm_ret = S_place

(***************************************************************************)
(* Vocabulary of the properties of the name=value fragments: the text     *)
(* after "(" of an invocation line is read from the left, one fragment    *)
(* per entry of the mapping from entry k on, ", " between two fragments   *)
(* and ")" after the last.                                                *)
(***************************************************************************)
RECURSIVE FragmentsMatch(_, _, _)
FragmentsMatch(text, params, k) ==
    IF k > Len(params) THEN text = <<")">>
    ELSE LET fragment == <<params[k][1], "=">>
                         \o FormatParameterValue(params[k][1], params[k][2]).text
             sep == IF k < Len(params) THEN <<", ">> ELSE <<>>
             n == Len(fragment) + Len(sep)
         IN  /\ IsPrefix(fragment \o sep, text)
             /\ FragmentsMatch(SubSeq(text, n + 1, Len(text)), params, k + 1)

ListDenoted(text) ==
    LET n == Len(text)
        items == SplitOn(SubSeq(text, 2, n - 1), ", ")
    IN  IF n < 2 \/ text[1] # "[" \/ text[n] # "]" THEN <<-1>>
        ELSE IF n = 2 THEN <<>>
        ELSE IF \E i \in 1..Len(items) :
                    items[i] = <<>> \/ \E j \in 1..Len(items[i]) : ~IsDigit(items[i][j])
        THEN <<-1>>
        ELSE [i \in 1..Len(items) |-> NatOf(items[i])]

RECURSIVE Decoded(_)
\* the content that the body of a single-quoted literal denotes: a bare quote or
\* newline ends the literal early, a backslash takes the next character with it
Decoded(body) ==
    IF body = <<>> THEN [ok |-> TRUE, content |-> <<>>]
    ELSE IF Head(body) \in {"'", "\n"} THEN [ok |-> FALSE, content |-> <<>>]
    ELSE IF Head(body) = "\\"
    THEN IF Len(body) = 1 THEN [ok |-> FALSE, content |-> <<>>]
         ELSE LET rest == Decoded(SubSeq(body, 3, Len(body)))
                  piece == CASE body[2] = "\n" -> <<>>
                             [] body[2] \in {"'", "\\"} -> <<body[2]>>
                             [] OTHER -> <<"\\", body[2]>>
              IN  [ok |-> rest.ok, content |-> piece \o rest.content]
    ELSE LET rest == Decoded(Tail(body))
         IN  [ok |-> rest.ok, content |-> <<Head(body)>> \o rest.content]

\* text is one well-formed single-quoted literal whose content is content
IsLiteralOf(text, content) ==
    /\ Len(text) >= 2
    /\ text[1] = "'"
    /\ text[Len(text)] = "'"
    /\ Decoded(SubSeq(text, 2, Len(text) - 1)) = [ok |-> TRUE, content |-> content]

(***************************************************************************)
(* C22.  Every 'position' value is rendered by one of two rules: a         *)
(* sequence of numbers as a literal list of the same elements in the same  *)
(* order, a string as the call self.robot.get_position('<name>').          *)
(***************************************************************************)
C22_PositionByOneOfTwoRules ==
    fmt_name = "position" =>
        /\ fmt_pc # "raised"
        /\ fmt_pc = "returned" =>
              \/ fmt_value.t = "list" /\ ListDenoted(fmt_ret) = fmt_value.l
              \/ /\ fmt_value.t = "str"
                 /\ fmt_ret = <<"self.robot.get_position('">> \o fmt_value.s \o <<"')">>

(***************************************************************************)
(* C23.  An 'object' value of any type is rendered as one well-formed      *)
(* quoted string literal whose content is the value's string form.         *)
(***************************************************************************)
C23_ObjectIsOneQuotedLiteral ==
    fmt_name = "object" =>
        /\ fmt_pc # "raised"
        /\ fmt_pc = "returned" => IsLiteralOf(fmt_ret, Str(fmt_value))

(***************************************************************************)
(* C25.  After place_object no attachment constraint exists, and at any    *)
(* time the number of live constraints is the number of pick_object calls  *)
(* made since the last place_object.                                       *)
(***************************************************************************)
\* the pick_object calls that no later place_object follows
PicksSinceLastPlace ==
    {i \in 1..Len(ops) :
        /\ ops[i] = "pick_object"
        /\ \A j \in (i + 1)..Len(ops) : ops[j] # "place_object"}

C25_PlaceReleasesEverything ==
    /\ (ops # <<>> /\ ops[Len(ops)] = "place_object") => constraints = 0
    /\ constraints = Cardinality(PicksSinceLastPlace)

====
